---- MODULE Spec2Model ----
(***************************************************************************)
(* QwikRead.  Three state machines over one state:                         *)
(*   Spec      the extractive summarizer (extractiveSummarize) and the     *)
(*             part of the click handler that reads the requested length   *)
(*             and calls it;                                               *)
(*   WaitSpec  waitForContentStabilization of the content script;          *)
(*   PopupSpec the Summarize click handler, one asynchronous handler per   *)
(*             click, interleaved at its awaits.                           *)
(* Strings are TLA+ strings, read one character at a time with SubSeq;     *)
(* regular expressions are modelled by the scans they perform.             *)
(***************************************************************************)
EXTENDS Integers, Sequences, FiniteSets, TLC

VARIABLES
    pc,              \* position inside extractiveSummarize
    entry,           \* who called: "call" (direct) or "click" (the handler)
    requested,       \* the sentence count the caller asked for, before any default
    text,            \* argument text
    numSentences,    \* argument numSentences, default applied
    cleaned,         \* const cleaned
    validSentences,  \* const validSentences
    initialized,     \* the later const locals that have been initialized
    wordFreq,        \* const wordFreq
    phraseFreq,      \* const phraseFreq
    sentenceScores,  \* const sentenceScores, in its current (sorted in place) order
    selected,        \* original indices of the sentences joined into the result
    result,          \* the returned string
    \* content.js, waitForContentStabilization
    now,              \* Date.now(), milliseconds
    document,         \* the page: what a signature reads from it
    calledAt,         \* Date.now() when waitForContentStabilization was called
    maxWaitTime,      \* argument maxWaitTime, default applied
    contentSignature, \* let contentSignature
    lastChangeTime,   \* let lastChangeTime
    observer,         \* const observer: "none", "observing" or "disconnected"
    intervalId,       \* const intervalId: "none", "set" or "cleared"
    nextCheck,        \* when the interval's callback is next due
    callbacks,        \* how many times callback() was invoked
    \* popup, the Summarize click handler
    loader,           \* loader.classList.contains('hidden')
    summaryContainer, \* summaryContainer.classList.contains('hidden')
    error,            \* error.classList.contains('hidden')
    handlers          \* each click's asynchronous handler: where it is suspended

summarizerVars ==
    <<pc, entry, requested, text, numSentences, cleaned, validSentences,
      initialized, wordFreq, phraseFreq, sentenceScores, selected, result>>
waitVars ==
    <<now, document, calledAt, maxWaitTime, contentSignature, lastChangeTime,
      observer, intervalId, nextCheck, callbacks>>
popupVars == <<loader, summaryContainer, error, handlers>>
vars == <<summarizerVars, waitVars, popupVars>>

(***************************************************************************)
(* JavaScript values                                                       *)
(***************************************************************************)
JSString(s) == [type |-> "string", value |-> s]
JSNull == [type |-> "null"]
JSUndefined == [type |-> "undefined"]
Num(n) == [type |-> "number", nan |-> FALSE, value |-> n]
NaN == [type |-> "number", nan |-> TRUE, value |-> 0]

(***************************************************************************)
(* Characters and character classes                                        *)
(***************************************************************************)
At(s, i) == SubSeq(s, i, i)
From(s, i) == SubSeq(s, i, Len(s))

LowerLetters == "abcdefghijklmnopqrstuvwxyz"
UpperLetters == "ABCDEFGHIJKLMNOPQRSTUVWXYZ"
Lower == {At(LowerLetters, i) : i \in 1..Len(LowerLetters)}
Upper == {At(UpperLetters, i) : i \in 1..Len(UpperLetters)}
Digit == {"0", "1", "2", "3", "4", "5", "6", "7", "8", "9"}
\* \w
WordChar == Lower \cup Upper \cup Digit \cup {"_"}
\* \s (the ASCII white space; the line terminator among them is "\n")
Space == {" ", "\t", "\n"}
LineTerminator == {"\n"}
\* [.!?]
Terminator == {".", "!", "?"}
Quote == {"\"", "'"}

\* The first index >= i whose character is not in C (Len(s) + 1 if none).
SkipIn(s, i, C) ==
    CHOOSE j \in i..(Len(s) + 1) :
        /\ j > Len(s) \/ At(s, j) \notin C
        /\ \A k \in i..(j - 1) : At(s, k) \in C

\* The first index >= i whose character is in C (Len(s) + 1 if none).
SkipNotIn(s, i, C) ==
    CHOOSE j \in i..(Len(s) + 1) :
        /\ j > Len(s) \/ At(s, j) \in C
        /\ \A k \in i..(j - 1) : At(s, k) \notin C

StartsWithAt(s, i, p) ==
    i + Len(p) - 1 <= Len(s) /\ SubSeq(s, i, i + Len(p) - 1) = p

\* String.prototype.startsWith / includes
StartsWith(s, p) == StartsWithAt(s, 1, p)
Includes(s, p) == \E i \in 1..(Len(s) - Len(p) + 1) : StartsWithAt(s, i, p)

\* String.prototype.trim
RECURSIVE TrimRight(_)
TrimRight(s) ==
    IF Len(s) > 0 /\ At(s, Len(s)) \in Space
    THEN TrimRight(SubSeq(s, 1, Len(s) - 1)) ELSE s
Trim(s) == TrimRight(From(s, SkipIn(s, 1, Space)))

\* String.prototype.toLowerCase
LowerOf(c) ==
    IF c \in Upper
    THEN At(LowerLetters, CHOOSE i \in 1..Len(UpperLetters) : At(UpperLetters, i) = c)
    ELSE c
RECURSIVE ToLowerFrom(_, _)
ToLowerFrom(s, i) ==
    LET u == SkipNotIn(s, i, Upper)
    IN  IF u > Len(s) THEN From(s, i)
        ELSE SubSeq(s, i, u - 1) \o LowerOf(At(s, u)) \o ToLowerFrom(s, u + 1)
toLowerCase(s) == ToLowerFrom(s, 1)

\* Array.prototype.join(' ')
RECURSIVE JoinSpace(_)
JoinSpace(ss) ==
    IF ss = <<>> THEN ""
    ELSE IF Len(ss) = 1 THEN ss[1]
    ELSE ss[1] \o " " \o JoinSpace(Tail(ss))

(***************************************************************************)
(* The cleaning chain, lines 13-20.  Each XEnd(s, i) is the index of the   *)
(* last character of the match of pattern X that starts at i, 0 if X does  *)
(* not match there.                                                        *)
(***************************************************************************)
\* /\[[^\]]*\]/
CitationEnd(s, i) ==
    IF At(s, i) # "[" THEN 0
    ELSE LET j == SkipNotIn(s, i + 1, {"]"}) IN IF j <= Len(s) THEN j ELSE 0

\* /\^.*$/m
CaretEnd(s, i) ==
    IF At(s, i) # "^" THEN 0 ELSE SkipNotIn(s, i + 1, LineTerminator) - 1

\* /https?:\/\/\S+/
UrlEnd(s, i) ==
    LET k == IF StartsWithAt(s, i, "https://") THEN i + 8
             ELSE IF StartsWithAt(s, i, "http://") THEN i + 7
             ELSE 0
    IN  IF k = 0 \/ k > Len(s) \/ At(s, k) \in Space THEN 0
        ELSE SkipNotIn(s, k, Space) - 1

\* /\(.*?\)/
ParenEnd(s, i) ==
    IF At(s, i) # "(" THEN 0
    ELSE LET j == SkipNotIn(s, i + 1, {")"} \cup LineTerminator)
         IN  IF j <= Len(s) /\ At(s, j) = ")" THEN j ELSE 0

\* /[^\w\s.!?]/
SpecialEnd(s, i) ==
    IF At(s, i) \in WordChar \cup Space \cup Terminator THEN 0 ELSE i

\* /\s+/
BlankEnd(s, i) ==
    IF At(s, i) \notin Space THEN 0 ELSE SkipIn(s, i, Space) - 1

\* One attempt of regular expression re at index i of s.
MatchEnd(re, s, i) ==
    CASE re = "citation" -> CitationEnd(s, i)
      [] re = "caret" -> CaretEnd(s, i)
      [] re = "url" -> UrlEnd(s, i)
      [] re = "paren" -> ParenEnd(s, i)
      [] re = "blank" -> BlankEnd(s, i)
      [] re = "special" -> SpecialEnd(s, i)

\* The start of the leftmost match of re at or after i, 0 if there is none.
NextMatch(re, s, i) ==
    IF \E m \in i..Len(s) : MatchEnd(re, s, m) >= m
    THEN CHOOSE m \in i..Len(s) :
            /\ MatchEnd(re, s, m) >= m
            /\ \A k \in i..(m - 1) : MatchEnd(re, s, k) < k
    ELSE 0

\* String.prototype.replace(re, by) with the g flag: the leftmost matches,
\* left to right, each replaced by the string by.
RECURSIVE ReplaceAllFrom(_, _, _, _)
ReplaceAllFrom(re, s, by, i) ==
    LET m == NextMatch(re, s, i)
    IN  IF m = 0 THEN From(s, i)
        ELSE SubSeq(s, i, m - 1) \o by
             \o ReplaceAllFrom(re, s, by, MatchEnd(re, s, m) + 1)
ReplaceAll(re, s, by) == ReplaceAllFrom(re, s, by, 1)

RemoveCitationsNever(s) == s
RemoveCitations(s) == ReplaceAll("citation", s, "")
RemoveCaretLines(s) == ReplaceAll("caret", s, "")
RemoveUrls(s) == ReplaceAll("url", s, "")
RemoveParentheticals(s) == ReplaceAll("paren", s, "")
CollapseWhitespace(s) == ReplaceAll("blank", s, " ")
RemoveSpecials(s) == ReplaceAll("special", s, "")

Clean(s) ==
    Trim(RemoveSpecials(CollapseWhitespace(RemoveParentheticals(
        RemoveUrls(RemoveCaretLines(RemoveCitations(s)))))))

(***************************************************************************)
(* Sentence splitting and filtering, lines 22-43                           *)
(***************************************************************************)
\* /[^.!?]+(?:[.!?]+["']?|$)/ matching at i: the index of the match's last
\* character, 0 if there is no match at i.
SentenceEnd(s, i) ==
    IF At(s, i) \in Terminator THEN 0
    ELSE LET j == SkipNotIn(s, i, Terminator)
             k == SkipIn(s, j, Terminator)
         IN  IF j > Len(s) THEN Len(s)
             ELSE IF k <= Len(s) /\ At(s, k) \in Quote THEN k
             ELSE k - 1

\* cleaned.match(sentenceRegex) || [], line 24
RECURSIVE SentencesFrom(_, _)
SentencesFrom(s, i) ==
    LET m == SkipIn(s, i, Terminator)
    IN  IF m > Len(s) THEN <<>>
        ELSE <<SubSeq(s, m, SentenceEnd(s, m))>>
             \o SentencesFrom(s, SentenceEnd(s, m) + 1)
Sentences(c) == SentencesFrom(c, 1)

\* s.split(/\s+/).length: one more than the number of white space runs.
SplitLength(s) ==
    1 + Cardinality({i \in 1..Len(s) :
                        At(s, i) \in Space /\ (i = 1 \/ At(s, i - 1) \notin Space)})

\* /^\s*\d+\.\s*/.test(s)
NumberedPrefix(s) ==
    LET j == SkipIn(s, 1, Space)
        k == SkipIn(s, j, Digit)
    IN  k > j /\ k <= Len(s) /\ At(s, k) = "."

MinWords == 4
MinLength == 20

\* The filter callback, lines 29-43.
TooShort(s) == SplitLength(s) < MinWords \/ Len(s) < MinLength
CodeLike(s) ==
    \/ Includes(s, "import ") \/ Includes(s, "def ") \/ Includes(s, "= ")
    \/ Includes(s, "{") \/ Includes(s, "}")
ReferenceLike(s) == StartsWith(s, "^") \/ StartsWith(s, "http") \/ NumberedPrefix(s)
NavigationLike(s) ==
    Includes(toLowerCase(s), "click here") \/ Includes(toLowerCase(s), "next page")
KeepNavigation(s) == ~TooShort(s) /\ ~CodeLike(s) /\ ~ReferenceLike(s)
Keep(s) == ~TooShort(s) /\ ~CodeLike(s) /\ ~ReferenceLike(s) /\ ~NavigationLike(s)

\* sentences.map(s => s.trim()).filter(...), lines 27-43
FilterValid(ss) == SelectSeq([i \in 1..Len(ss) |-> Trim(ss[i])], Keep)

(***************************************************************************)
(* Frequency tables, lines 47-76                                           *)
(***************************************************************************)
stopWords ==
    {"a", "an", "the", "and", "or", "but", "is", "are", "was", "were",
     "to", "of", "in", "for", "with", "on", "at", "by", "this", "that",
     "there", "here", "what", "where", "when", "how", "all", "any",
     "both", "each", "few", "more", "most", "other", "some", "such",
     "no", "nor", "not", "only", "own", "same", "so", "than", "too",
     "very", "can", "will", "just", "should", "now", "click", "page"}

\* sentence.toLowerCase().match(/\b\w+\b/g) || []: the maximal runs of \w.
RECURSIVE WordsFrom(_, _)
WordsFrom(s, i) ==
    LET m == SkipNotIn(s, i, WordChar)
        e == SkipIn(s, m, WordChar)
    IN  IF m > Len(s) THEN <<>>
        ELSE <<SubSeq(s, m, e - 1)>> \o WordsFrom(s, e)
Words(sentence) == WordsFrom(toLowerCase(sentence), 1)

NonStop(words) == SelectSeq(words, LAMBDA w : w \notin stopWords)
Range(f) == {f[i] : i \in DOMAIN f}
Occurrences(seq, x) == Cardinality({i \in DOMAIN seq : seq[i] = x})

RECURSIVE Flatten(_)
Flatten(seqs) == IF seqs = <<>> THEN <<>> ELSE Head(seqs) \o Flatten(Tail(seqs))

\* wordFreq and phraseFreq are plain objects ({}), so a key that names a
\* property of Object.prototype reads as that property and not as a count.
\* After toLowerCase these are the two all-lower-case names.
ObjectPrototypeKeys == {"constructor", "__proto__"}

\* The words counted by lines 63-67, in order.
CountedWords(sentence) ==
    SelectSeq(Words(sentence), LAMBDA w : w \notin stopWords /\ Len(w) > 2)

\* The phrases counted by lines 70-75, in order.
CountedPhrases(sentence) ==
    LET words == Words(sentence)
        at == SelectSeq([i \in 1..(Len(words) - 1) |-> i],
                        LAMBDA i : words[i] \notin stopWords
                                   /\ words[i + 1] \notin stopWords)
    IN  [k \in 1..Len(at) |-> words[at[k]] \o " " \o words[at[k] + 1]]

\* The numeric entries of a table after the forEach of lines 60-76: each key
\* with the number of times it was counted.  (An entry under a key of
\* ObjectPrototypeKeys is a string, never a count, and is not listed.)
Tally(keys) ==
    [k \in Range(keys) \ ObjectPrototypeKeys |-> Occurrences(keys, k)]

BuildWordFreq(valid) ==
    Tally(Flatten([i \in 1..Len(valid) |-> CountedWords(valid[i])]))
BuildPhraseFreq(valid) ==
    Tally(Flatten([i \in 1..Len(valid) |-> CountedPhrases(valid[i])]))

\* table[key] || 0, for a key that is not a key of Object.prototype
Lookup(table, key) == IF key \in DOMAIN table THEN table[key] ELSE 0

(***************************************************************************)
(* Scoring, lines 78-123.  A score is a double in the code; here it is a   *)
(* fixed-point integer, Scale units to 1, or NaN.  Each quotient is        *)
(* rounded down to a unit, so two scores closer than a few units are not   *)
(* told apart as the doubles would be; equal computations stay equal.      *)
(***************************************************************************)
Scale == 10 ^ 6
RECURSIVE Sum(_)
Sum(ns) == IF ns = <<>> THEN 0 ELSE Head(ns) + Sum(Tail(ns))
Abs(x) == IF x < 0 THEN -x ELSE x
Min(a, b) == IF a <= b THEN a ELSE b
Max(a, b) == IF a >= b THEN a ELSE b

\* Scale * Math.exp(-k / 20), rounded, for k = 0..40
ExpTable ==
    <<
       1000000, 951229, 904837, 860708, 818731, 778801, 740818,
       704688, 670320, 637628, 606531, 576950, 548812, 522046,
       496585, 472367, 449329, 427415, 406570, 386741, 367879,
       349938, 332871, 316637, 301194, 286505, 272532, 259240,
       246597, 234570, 223130, 212248, 201897, 192050, 182684,
       173774, 165299, 157237, 149569, 142274, 135335
    >>

\* lines 83-86: NaN when a summed entry is not a number
frequencyScore(words, wf) ==
    LET ns == NonStop(words)
    IN  IF \E i \in DOMAIN ns : ns[i] \in ObjectPrototypeKeys THEN NaN
        ELSE Num((Sum([i \in 1..Len(ns) |-> Lookup(wf, ns[i])]) * Scale)
                 \div (IF Len(ns) = 0 THEN 1 ELSE Len(ns)))

\* lines 89-93
phraseScore(words, pf) ==
    Num((Sum([i \in 1..(Len(words) - 1) |->
                Lookup(pf, words[i] \o " " \o words[i + 1])]) * Scale)
        \div (IF Len(words) = 0 THEN 1 ELSE Len(words)))

\* lines 96-100.  index < total * 0.2 is 5 * index < total, and
\* index > total * 0.8 is 5 * index > 4 * total: for every total below 2000
\* the doubles total * 0.2 and total * 0.8 compare with each index as the
\* exact products do.
positionScore(index, total) ==
    IF 5 * index < total THEN Scale - (5 * index * Scale) \div total
    ELSE IF 5 * index > 4 * total THEN ((5 * index - 4 * total) * Scale) \div total
    ELSE Scale \div 5

\* line 103
lengthScore(words) == ExpTable[Abs(Len(words) - 20) + 1]

\* lines 106-107: 0 / 0 is NaN
diversityScore(words) ==
    IF Len(words) = 0 THEN NaN
    ELSE Num((Cardinality(Range(NonStop(words))) * Scale) \div Len(words))

\* lines 110-116, times 20 to keep the weights whole:
\* 0.3, 0.2, 0.2, 0.15, 0.15 are 6, 4, 4, 3, 3 twentieths.
finalScore(sentence, index, total, wf, pf) ==
    LET words == Words(sentence)
        f == frequencyScore(words, wf)
        p == phraseScore(words, pf)
        d == diversityScore(words)
    IN  IF f.nan \/ d.nan THEN NaN
        ELSE Num(6 * f.value + 4 * p.value + 4 * positionScore(index, total)
                 + 3 * lengthScore(words) + 3 * d.value)

\* validSentences.map((sentence, index) => ...), lines 79-123
ScoreAll(valid, wf, pf) ==
    [i \in 1..Len(valid) |->
        [sentence |-> Trim(valid[i]),
         originalIndex |-> i - 1,
         score |-> finalScore(valid[i], i - 1, Len(valid), wf, pf)]]

(***************************************************************************)
(* Selection, lines 125-132                                                *)
(***************************************************************************)
\* (a, b) => b.score - a.score, as Array.prototype.sort reads it: negative
\* (-1) puts a first, positive (1) puts b first, and NaN counts as 0.
ByScoreDesc(a, b) ==
    IF a.score.nan \/ b.score.nan THEN 0
    ELSE IF b.score.value < a.score.value THEN -1
    ELSE IF b.score.value > a.score.value THEN 1
    ELSE 0

\* (a, b) => a.originalIndex - b.originalIndex
ByOriginalIndex(a, b) ==
    IF a.originalIndex < b.originalIndex THEN -1
    ELSE IF a.originalIndex > b.originalIndex THEN 1
    ELSE 0

Compare(cmp, a, b) ==
    CASE cmp = "score" -> ByScoreDesc(a, b)
      [] cmp = "index" -> ByOriginalIndex(a, b)

\* ECMAScript's consistent comparator: "equal" is transitive and agrees with
\* "before" (the two comparators here are antisymmetric by construction).
Consistent(cmp, items) ==
    \A i, j, k \in DOMAIN items :
        /\ (Compare(cmp, items[i], items[j]) = 0 /\ Compare(cmp, items[j], items[k]) = 0)
              => Compare(cmp, items[i], items[k]) = 0
        /\ (Compare(cmp, items[i], items[j]) = 0 /\ Compare(cmp, items[j], items[k]) < 0)
              => Compare(cmp, items[i], items[k]) < 0
        /\ (Compare(cmp, items[i], items[j]) < 0 /\ Compare(cmp, items[j], items[k]) = 0)
              => Compare(cmp, items[i], items[k]) < 0
        /\ (Compare(cmp, items[i], items[j]) < 0 /\ Compare(cmp, items[j], items[k]) < 0)
              => Compare(cmp, items[i], items[k]) < 0

\* Insert x behind every element that does not come after it: the stable place.
RECURSIVE InsertStable(_, _, _)
InsertStable(cmp, sorted, x) ==
    IF sorted = <<>> THEN <<x>>
    ELSE IF Compare(cmp, x, Head(sorted)) < 0 THEN <<x>> \o sorted
    ELSE <<Head(sorted)>> \o InsertStable(cmp, Tail(sorted), x)

RECURSIVE StableSortUpTo(_, _, _)
StableSortUpTo(cmp, items, n) ==
    IF n = 0 THEN <<>>
    ELSE InsertStable(cmp, StableSortUpTo(cmp, items, n - 1), items[n])
StableSort(cmp, items) == StableSortUpTo(cmp, items, Len(items))

\* Array.prototype.sort(cmp): the stable sort (ECMAScript 2019, every Chrome
\* that runs the extension) when cmp is consistent on the array, and an
\* implementation-defined order, any permutation, when it is not.
SortOutcomes(cmp, items) ==
    IF Consistent(cmp, items) THEN {StableSort(cmp, items)}
    ELSE {[i \in 1..Len(items) |-> items[p[i]]] : p \in Permutations(DOMAIN items)}

Slice0OneMore(items, end) ==
    SubSeq(items, 1, IF end.nan THEN 0 ELSE Min(end.value + 1, Len(items)))
\* Array.prototype.slice(0, end): a negative end counts from the back, NaN is 0.
Slice0(items, end) ==
    LET k == IF end.nan THEN 0
             ELSE IF end.value < 0 THEN Max(Len(items) + end.value, 0)
             ELSE Min(end.value, Len(items))
    IN  SubSeq(items, 1, k)

ShortEnoughStrict(valid, n) == ~n.nan /\ Len(valid) < n.value
\* validSentences.length <= numSentences, line 45: false against NaN
ShortEnough(valid, n) == ~n.nan /\ Len(valid) <= n.value

TopSentencesByScore(sorted, n) == Slice0(sorted, n)
\* .slice(0, numSentences).sort(by originalIndex), lines 128-129.  The
\* original indices are distinct, so this comparator is consistent.
TopSentences(sorted, n) == StableSort("index", Slice0(sorted, n))

(***************************************************************************)
(* The callers' inputs                                                     *)
(***************************************************************************)
\* parseInt(value): leading white space, an optional sign, decimal digits;
\* NaN when no digit follows.
DigitValue(c) == CHOOSE d \in 0..9 : At("0123456789", d + 1) = c
RECURSIVE DigitsValue(_, _, _)
DigitsValue(s, i, acc) ==
    IF i <= Len(s) /\ At(s, i) \in Digit
    THEN DigitsValue(s, i + 1, 10 * acc + DigitValue(At(s, i)))
    ELSE acc
parseInt(s) ==
    LET i == SkipIn(s, 1, Space)
        neg == i <= Len(s) /\ At(s, i) = "-"
        j == IF i <= Len(s) /\ At(s, i) \in {"-", "+"} THEN i + 1 ELSE i
    IN  IF j > Len(s) \/ At(s, j) \notin Digit THEN NaN
        ELSE Num((IF neg THEN -1 ELSE 1) * DigitsValue(s, j, 0))

\* The default of the parameter numSentences, line 11
DefaultNumSentences == 5

\* parseInt(...) || 5, line 220: NaN and 0 are falsy
FallbackSentenceCount == 5
SentenceCount(value) ==
    LET n == parseInt(value)
    IN  IF n.nan \/ n.value = 0 THEN Num(FallbackSentenceCount) ELSE n

\* response.content has to be a string of 50 characters or more, line 207
MinContent == 50
ContentAccepted(content) ==
    content.type = "string" /\ Len(content.value) >= MinContent

(***************************************************************************)
(* Inputs: texts put together from pieces, whole documents of the two      *)
(* plain sentences, and the scenarios of the specification.                *)
(***************************************************************************)
MaxPieces == 2
MaxDoc == 6
MaxCount == 3

PlainSentences == {"The cat sat on the mat.", "Cats like warm city roofs at night."}

Pieces ==
    PlainSentences \cup
    {"The constructor builds every new cat.",
     "Dogs chase - and fear - a cat!",
     "[1] (see the note) http://example.com",
     "^ a footnote\n",
     "Too short. Click here for the next page. Go to the Next Page now.",
     "import foo from the bar module. The keyword def starts a function. "
        \o "http is how the pages travel."}

ScenarioText ==
    "The cat sat on the mat. [1] A much longer sentence about cats and their "
    \o "habits in urban environments follows here. http://example.com Another "
    \o "long descriptive sentence about feline behavior and city life "
    \o "continues the narrative."
ScenarioSecond ==
    "A much longer sentence about cats and their habits in urban "
    \o "environments follows here."
ScenarioThird ==
    "Another long descriptive sentence about feline behavior and city life "
    \o "continues the narrative."

ConstructorText ==
    "The constructor builds every new cat. The cat sat on the mat. "
    \o "Cats like warm city roofs at night."

MixedText ==
    "Too short. The cat sat on the mat. Click here for the next page. "
    \o "Cats like warm city roofs at night. (an aside) The cat sat on the mat."

Scenarios ==
    {ScenarioText, ConstructorText, MixedText,
     "import foo\ndef bar(): x = 1 {}", "  \n\t "}

SeqsUpTo(S, n) == UNION {[1..k -> S] : k \in 0..n}

Texts ==
    {JoinSpace(ps) : ps \in SeqsUpTo(Pieces, MaxPieces)}
    \cup {JoinSpace(ps) : ps \in SeqsUpTo(PlainSentences, MaxDoc)}
    \cup Scenarios

CallTexts == {JSNull} \cup {JSString(t) : t \in Texts}
CallCounts == {JSUndefined, NaN} \cup {Num(k) : k \in -1..MaxCount}

ClickContents ==
    {JSNull, JSString("Too short."), JSString(ScenarioText), JSString(ConstructorText)}
    \cup {JSString(JoinSpace(ps)) : ps \in [1..3 -> PlainSentences]}
ClickValues == {"3", "1", "0", "-2", "", "many"}

(***************************************************************************)
(* content.js, waitForContentStabilization, lines 230-277.  Time is Date.now *)
(* in milliseconds and moves in steps of half a check interval; the page is *)
(* what the three reads of a signature see of it.                           *)
(***************************************************************************)
checkInterval == 200
StableTime == 1000
DefaultMaxWaitTime == 5000
MaxTime == 6000
MaxCallTime == 400

InitialPage == [innerText |-> 120, p |-> 1, h |-> 1]
Pages ==
    { InitialPage,
      [innerText |-> 480, p |-> 1, h |-> 1],
      [innerText |-> 480, p |-> 4, h |-> 2] }
WaitTimes == {JSUndefined, Num(600), Num(3000)}

\* lines 231-235 and 242-246
Signature(page) ==
    [length |-> page.innerText, paragraphs |-> page.p, headings |-> page.h]

\* lines 248-252
SignatureChanged(newSignature, oldSignature) ==
    \/ newSignature.length # oldSignature.length
    \/ newSignature.paragraphs # oldSignature.paragraphs
    \/ newSignature.headings # oldSignature.headings

\* line 266
Stable(time, lastChange) == time - lastChange > StableTime

\* line 270
MaxWaitExceeded(time, lastChange, maxWait) == time - lastChange > maxWait

WaitInit ==
    /\ now = 0
    /\ document = InitialPage
    /\ calledAt = 0
    /\ maxWaitTime = DefaultMaxWaitTime
    /\ contentSignature = JSUndefined
    /\ lastChangeTime = 0
    /\ observer = "none"
    /\ intervalId = "none"
    /\ nextCheck = 0
    /\ callbacks = 0

(***************************************************************************)
(* popup: the Summarize click handler, lines 172-259                       *)
(***************************************************************************)
MaxClicks == 2
HandlerIds == 1..MaxClicks

\* const [tab] of line 180: no tab, a tab without url, one that is not a
\* web page, a web page
Tab(url) == [type |-> "tab", url |-> url]
Tabs ==
    {JSUndefined, Tab(JSUndefined), Tab(JSString("chrome://extensions")),
     Tab(JSString("https://example.org/article"))}

\* lines 182-189: the two throws before the injection
TabAccepted(tab) ==
    /\ tab.type # "undefined"
    /\ tab.url.type = "string"
    /\ tab.url.value # ""
    /\ StartsWith(tab.url.value, "http")

NavigationText ==
    "Home. About. Contact. Login. Search. Help. Terms. Privacy. More. News."
PopupContents ==
    {JSUndefined, JSString("Too short."), JSString(NavigationText),
     JSString(ScenarioText)}
Response(content) == [type |-> "object", content |-> content]
Responses == {JSUndefined} \cup {Response(content) : content \in PopupContents}

\* How the promise of sendMessageWithTimeout settles, lines 154-169: the
\* timer rejects it, or the callback of sendMessage clears the timer and
\* rejects with lastError or resolves with the response.
Rejected(message) == [kind |-> "rejected", value |-> JSString(message)]
Resolved(response) == [kind |-> "resolved", value |-> response]
Settlements ==
    {Rejected("Message timeout: No response received"),
     Rejected("Could not establish connection. Receiving end does not exist.")}
    \cup {Resolved(response) : response \in Responses}
PopupValues == {"3", "1", "many"}

\* extractiveSummarize(content, n) as the handler calls it, line 221: every
\* string it can return (one, unless the sort comparator is inconsistent).
Summaries(content, n) ==
    LET valid == FilterValid(Sentences(Clean(content)))
    IN  IF ShortEnough(valid, n) THEN {JoinSpace(valid)}
        ELSE LET scores == ScoreAll(valid, BuildWordFreq(valid), BuildPhraseFreq(valid))
             IN  {JoinSpace([i \in 1..Len(TopSentences(sorted, n)) |->
                                TopSentences(sorted, n)[i].sentence]) :
                      sorted \in SortOutcomes("score", scores)}

\* !summary || summary.trim().length === 0, line 226
SummaryEmpty(summary) == Len(Trim(summary)) = 0

\* A handler between its awaits: where it is suspended, and its locals.
Handler(at, tab, summary) ==
    [at |-> at, tab |-> tab, summary |-> summary, errorMessage |-> JSUndefined]
NotStarted == Handler("none", JSUndefined, JSUndefined)

\* let errorMessage, lines 246-255
ErrorMessage(message) ==
    IF Includes(message, "Cannot access contents of url")
    THEN "Cannot access this page. Try opening a regular webpage."
    ELSE IF Includes(message, "Message timeout")
    THEN "Page took too long to respond. Please refresh and try again."
    ELSE IF Includes(message, "Receiving end does not exist")
    THEN "Please refresh the page and try again."
    ELSE IF message # "" THEN message
    ELSE "An unexpected error occurred. Please try again."

PopupInit ==
    /\ loader = TRUE
    /\ summaryContainer = TRUE
    /\ error = TRUE
    /\ handlers = [h \in HandlerIds |-> NotStarted]

(***************************************************************************)
(* The state machine                                                       *)
(***************************************************************************)
Init ==
    /\ pc = "idle"
    /\ entry = "none"
    /\ requested = JSUndefined
    /\ text = JSUndefined
    /\ numSentences = JSUndefined
    /\ cleaned = ""
    /\ validSentences = <<>>
    /\ initialized = {}
    /\ wordFreq = <<>>
    /\ phraseFreq = <<>>
    /\ sentenceScores = <<>>
    /\ selected = <<>>
    /\ result = JSUndefined
    /\ WaitInit
    /\ PopupInit

\* extractiveSummarize(t) or extractiveSummarize(t, n): line 11, with the
\* default of the second parameter.
Call(t, n) ==
    /\ pc = "idle"
    /\ pc' = "called"
    /\ entry' = "call"
    /\ requested' = n
    /\ text' = t
    /\ numSentences' = IF n.type = "undefined" THEN Num(DefaultNumSentences) ELSE n
    /\ UNCHANGED <<cleaned, validSentences, initialized, wordFreq, phraseFreq,
                   sentenceScores, selected, result>>
    /\ UNCHANGED <<waitVars, popupVars>>

\* The click handler from the response on, lines 203-221: a missing or short
\* content throws before the summarizer is called.
Click(content, value) ==
    /\ pc = "idle"
    /\ entry' = "click"
    /\ requested' = parseInt(value)
    /\ IF ContentAccepted(content)
       THEN /\ pc' = "called"
            /\ text' = content
            /\ numSentences' = SentenceCount(value)
       ELSE /\ pc' = "rejected"
            /\ UNCHANGED <<text, numSentences>>
    /\ UNCHANGED <<cleaned, validSentences, initialized, wordFreq, phraseFreq,
                   sentenceScores, selected, result>>
    /\ UNCHANGED <<waitVars, popupVars>>

\* lines 13-20: text.replace of a value that is not a string is a TypeError
Normalize ==
    /\ pc = "called"
    /\ IF text.type = "string"
       THEN pc' = "cleaned" /\ cleaned' = Clean(text.value)
       ELSE pc' = "thrown" /\ UNCHANGED cleaned
    /\ UNCHANGED <<entry, requested, text, numSentences, validSentences,
                   initialized, wordFreq, phraseFreq, sentenceScores, selected,
                   result>>
    /\ UNCHANGED <<waitVars, popupVars>>

\* lines 23-43
SegmentAndFilter ==
    /\ pc = "cleaned"
    /\ pc' = "filtered"
    /\ validSentences' = FilterValid(Sentences(cleaned))
    /\ UNCHANGED <<entry, requested, text, numSentences, cleaned, initialized,
                   wordFreq, phraseFreq, sentenceScores, selected, result>>
    /\ UNCHANGED <<waitVars, popupVars>>

\* line 45, taken
ShortCircuit ==
    /\ pc = "filtered"
    /\ ShortEnough(validSentences, numSentences)
    /\ pc' = "done"
    /\ selected' = [i \in 1..Len(validSentences) |-> i - 1]
    /\ result' = JSString(JoinSpace(validSentences))
    /\ UNCHANGED <<entry, requested, text, numSentences, cleaned, validSentences,
                   initialized, wordFreq, phraseFreq, sentenceScores>>
    /\ UNCHANGED <<waitVars, popupVars>>

\* line 45 not taken, then lines 48-76
BuildFrequencies ==
    /\ pc = "filtered"
    /\ ~ShortEnough(validSentences, numSentences)
    /\ pc' = "counted"
    /\ wordFreq' = BuildWordFreq(validSentences)
    /\ phraseFreq' = BuildPhraseFreq(validSentences)
    /\ initialized' = initialized \cup {"wordFreq", "phraseFreq"}
    /\ UNCHANGED <<entry, requested, text, numSentences, cleaned, validSentences,
                   sentenceScores, selected, result>>
    /\ UNCHANGED <<waitVars, popupVars>>

\* lines 79-123
ScoreSentences ==
    /\ pc = "counted"
    /\ pc' = "scored"
    /\ sentenceScores' = ScoreAll(validSentences, wordFreq, phraseFreq)
    /\ initialized' = initialized \cup {"sentenceScores"}
    /\ UNCHANGED <<entry, requested, text, numSentences, cleaned, validSentences,
                   wordFreq, phraseFreq, selected, result>>
    /\ UNCHANGED <<waitVars, popupVars>>

\* lines 126-132: sort sorts sentenceScores in place
SelectTop ==
    /\ pc = "scored"
    /\ \E sorted \in SortOutcomes("score", sentenceScores) :
          LET top == TopSentences(sorted, numSentences)
          IN  /\ sentenceScores' = sorted
              /\ selected' = [i \in 1..Len(top) |-> top[i].originalIndex]
              /\ result' = JSString(JoinSpace([i \in 1..Len(top) |-> top[i].sentence]))
    /\ pc' = "done"
    /\ initialized' = initialized \cup {"topSentences"}
    /\ UNCHANGED <<entry, requested, text, numSentences, cleaned, validSentences,
                   wordFreq, phraseFreq>>
    /\ UNCHANGED <<waitVars, popupVars>>

Next ==
    \/ \E t \in CallTexts, n \in CallCounts : Call(t, n)
    \/ \E content \in ClickContents, value \in ClickValues : Click(content, value)
    \/ Normalize
    \/ SegmentAndFilter
    \/ ShortCircuit
    \/ BuildFrequencies
    \/ ScoreSentences
    \/ SelectTop

Spec == Init /\ [][Next]_vars

(***************************************************************************)
(* waitForContentStabilization as a state machine                          *)
(***************************************************************************)
\* Time passes; a timer that is due fires before time moves on.
Advance ==
    /\ now + checkInterval \div 2 <= MaxTime
    /\ intervalId = "set" => now < nextCheck
    /\ now' = now + checkInterval \div 2
    /\ UNCHANGED <<document, calledAt, maxWaitTime, contentSignature,
                   lastChangeTime, observer, intervalId, nextCheck, callbacks>>
    /\ UNCHANGED <<summarizerVars, popupVars>>

\* waitForContentStabilization(callback) or (callback, m): lines 230-265,
\* up to and including setInterval.
waitForContentStabilization(m) ==
    /\ observer = "none"
    /\ now <= MaxCallTime
    /\ calledAt' = now
    /\ maxWaitTime' = IF m.type = "undefined" THEN DefaultMaxWaitTime ELSE m.value
    /\ contentSignature' = Signature(document)
    /\ lastChangeTime' = now
    /\ observer' = "observing"
    /\ intervalId' = "set"
    /\ nextCheck' = now + checkInterval
    /\ UNCHANGED <<now, document, callbacks>>
    /\ UNCHANGED <<summarizerVars, popupVars>>

\* The page changes to page (or changes without changing what a signature
\* reads, page = document) and, while the observer observes, its callback
\* runs: lines 241-256.
Mutate(page) ==
    /\ document' = page
    /\ IF observer = "observing"
          /\ SignatureChanged(Signature(page), contentSignature)
       THEN /\ contentSignature' = Signature(page)
            /\ lastChangeTime' = now
       ELSE UNCHANGED <<contentSignature, lastChangeTime>>
    /\ UNCHANGED <<now, calledAt, maxWaitTime, observer, intervalId, nextCheck,
                   callbacks>>
    /\ UNCHANGED <<summarizerVars, popupVars>>

\* The interval's callback, lines 265-276.
IntervalCheck ==
    /\ intervalId = "set"
    /\ now = nextCheck
    /\ IF Stable(now, lastChangeTime)
       THEN /\ intervalId' = "cleared"
            /\ observer' = "disconnected"
            /\ callbacks' = callbacks + 1
       ELSE IF MaxWaitExceeded(now, lastChangeTime, maxWaitTime)
       THEN /\ intervalId' = "cleared"
            /\ observer' = "disconnected"
            /\ callbacks' = callbacks + 1
       ELSE UNCHANGED <<intervalId, observer, callbacks>>
    /\ nextCheck' = now + checkInterval
    /\ UNCHANGED <<now, document, calledAt, maxWaitTime, contentSignature,
                   lastChangeTime>>
    /\ UNCHANGED <<summarizerVars, popupVars>>

WaitNext ==
    \/ Advance
    \/ \E m \in WaitTimes : waitForContentStabilization(m)
    \/ \E page \in Pages : Mutate(page)
    \/ IntervalCheck

WaitSpec == Init /\ [][WaitNext]_vars

(***************************************************************************)
(* The Summarize click handler as a state machine: every click starts a    *)
(* handler, and a handler runs from one await to the next without          *)
(* interruption.                                                           *)
(***************************************************************************)
\* The catch block, lines 240-258, ending handler h; message is err.message.
Catch(h, message) ==
    /\ loader' = TRUE
    /\ error' = FALSE
    /\ handlers' = [handlers EXCEPT ![h] =
           [at |-> "failed", tab |-> @.tab, summary |-> JSUndefined,
            errorMessage |-> JSString(ErrorMessage(message))]]
    /\ UNCHANGED summaryContainer

\* A click on the Summarize button: lines 172-180, up to the first await.
ClickSummarize(h) ==
    /\ handlers[h].at = "none"
    /\ \A g \in HandlerIds : g < h => handlers[g].at # "none"
    /\ loader' = FALSE
    /\ summaryContainer' = TRUE
    /\ error' = TRUE
    /\ handlers' = [handlers EXCEPT ![h] = Handler("query", JSUndefined, JSUndefined)]
    /\ UNCHANGED <<summarizerVars, waitVars>>

\* chrome.tabs.query resolves: lines 180-192, up to the first executeScript.
TabsQueried(h, tab) ==
    /\ handlers[h].at = "query"
    /\ IF TabAccepted(tab)
       THEN /\ handlers' = [handlers EXCEPT ![h] = Handler("inject1", tab, JSUndefined)]
            /\ UNCHANGED <<loader, summaryContainer, error>>
       ELSE IF tab.type = "undefined" THEN Catch(h, "No active tab found")
       ELSE Catch(h, "Cannot summarize this page. Extension only works on web pages.")
    /\ UNCHANGED <<summarizerVars, waitVars>>

\* An executeScript of injectContentScripts settles, lines 136-151 and
\* 192-198: after the first the second is awaited; after the second, or a
\* rejection, the handler goes on to the 100 ms timer.
ScriptInjected(h, ok) ==
    /\ handlers[h].at \in {"inject1", "inject2"}
    /\ handlers' = [handlers EXCEPT ![h] =
           Handler(IF ok /\ @.at = "inject1" THEN "inject2" ELSE "delay",
                   @.tab, JSUndefined)]
    /\ UNCHANGED <<loader, summaryContainer, error>>
    /\ UNCHANGED <<summarizerVars, waitVars>>

\* The 100 ms timer fires: lines 198-201, sendMessageWithTimeout is called.
DelayElapsed(h) ==
    /\ handlers[h].at = "delay"
    /\ handlers' = [handlers EXCEPT ![h] = Handler("message", @.tab, JSUndefined)]
    /\ UNCHANGED <<loader, summaryContainer, error>>
    /\ UNCHANGED <<summarizerVars, waitVars>>

\* The promise of sendMessageWithTimeout settles: lines 201-238, or the
\* catch block from wherever it throws.  value is what the sentence-count
\* control holds.
MessageSettled(h, settled, value) ==
    /\ handlers[h].at = "message"
    /\ IF settled.kind = "rejected" THEN Catch(h, settled.value.value)
       ELSE IF settled.value.type = "undefined"
       THEN Catch(h, "Failed to get response from page. Please refresh and try again.")
       ELSE IF ~ContentAccepted(settled.value.content)
       THEN Catch(h, "Could not extract meaningful content from this page. The page might be empty or still loading.")
       ELSE \E summary \in Summaries(settled.value.content.value, SentenceCount(value)) :
               IF SummaryEmpty(summary)
               THEN Catch(h, "No meaningful summary could be generated. The content might be too short or not in a readable format.")
               ELSE /\ loader' = TRUE
                    /\ summaryContainer' = FALSE
                    /\ handlers' = [handlers EXCEPT ![h] =
                           Handler("shown", @.tab, JSString(summary))]
                    /\ UNCHANGED error
    /\ UNCHANGED <<summarizerVars, waitVars>>

PopupNext ==
    \/ \E h \in HandlerIds : ClickSummarize(h)
    \/ \E h \in HandlerIds, tab \in Tabs : TabsQueried(h, tab)
    \/ \E h \in HandlerIds, ok \in BOOLEAN : ScriptInjected(h, ok)
    \/ \E h \in HandlerIds : DelayElapsed(h)
    \/ \E h \in HandlerIds, settled \in Settlements, value \in PopupValues :
          MessageSettled(h, settled, value)

PopupSpec == Init /\ [][PopupNext]_vars

(***************************************************************************)
(* Properties                                                              *)
(***************************************************************************)
Returned == pc = "done"
PositiveCount == ~numSentences.nan /\ numSentences.value > 0
\* The scored path was taken: line 45 did not return.
Scored == "sentenceScores" \in initialized
OutputSentences == [i \in 1..Len(selected) |-> validSentences[selected[i] + 1]]
ScoreOf(index) ==
    (CHOOSE item \in Range(sentenceScores) : item.originalIndex = index).score

\* C1: for a positive sentence count, the returned string is the surviving
\* sentences at strictly increasing original indices, joined by a space: a
\* subsequence of validSentences, nothing reordered, nothing repeated.
C1_OrderPreserved ==
    (Returned /\ PositiveCount) =>
        /\ \A i \in DOMAIN selected : selected[i] \in 0..(Len(validSentences) - 1)
        /\ \A i \in 1..(Len(selected) - 1) : selected[i] < selected[i + 1]
        /\ result = JSString(JoinSpace(OutputSentences))

\* The score order of the selected sentences was not their original order.
C1_Witness ==
    /\ Returned /\ PositiveCount /\ Scored
    /\ \E i, j \in 1..numSentences.value :
          /\ i < j
          /\ sentenceScores[i].originalIndex > sentenceScores[j].originalIndex

\* C2: for a positive integer sentence count, the output has exactly
\* min(sentenceCount, surviving sentences) sentences, counted in the selection
\* and in the returned string.
C2_OutputSize ==
    (Returned /\ PositiveCount) =>
        /\ Len(selected) = Min(numSentences.value, Len(validSentences))
        /\ Len(Sentences(result.value)) = Min(numSentences.value, Len(validSentences))

C2_Witness ==
    /\ Returned /\ PositiveCount /\ Scored
    /\ Len(selected) = numSentences.value
    /\ Len(validSentences) > numSentences.value + 1

\* C3: a requested sentence count that is zero, negative or not a number is
\* replaced by a fallback (5, or 1), so the output has min(fallback, surviving
\* sentences) sentences.
C3_MalformedCountFallsBack ==
    (Returned /\ requested.type = "number" /\ (requested.nan \/ requested.value <= 0)) =>
        \E fallback \in {1, 5} :
            Len(selected) = Min(fallback, Len(validSentences))

\* C4: extractiveSummarize never throws; with no surviving sentence (empty,
\* white-space-only, null or wholly filtered input) it returns "".
C4_NeverThrows ==
    /\ pc # "thrown"
    /\ (Returned /\ validSentences = <<>>) => result = JSString("")

\* The filter as the specification words it.
PassesFilter(s) ==
    /\ SplitLength(s) >= 4
    /\ Len(s) >= 20
    /\ ~Includes(s, "{") /\ ~Includes(s, "}")
    /\ ~Includes(s, "import ") /\ ~Includes(s, "def ")
    /\ ~StartsWith(s, "http") /\ ~NumberedPrefix(s)
    /\ ~Includes(toLowerCase(s), "click here")
    /\ ~Includes(toLowerCase(s), "next page")

\* C5: every sentence of the returned string has at least 4 words and 20
\* characters, no brace, no "import " or "def ", no leading "http" or numbered
\* list prefix, and neither "click here" nor "next page" in any case.
C5_OutputPassesFilter ==
    Returned =>
        /\ \A i \in DOMAIN OutputSentences : PassesFilter(OutputSentences[i])
        /\ \A s \in Range(Sentences(result.value)) : PassesFilter(Trim(s))

\* Some sentence was rejected and some sentence was returned on the scored path.
C5_Witness ==
    /\ Returned /\ Scored
    /\ Len(selected) >= 1
    /\ Len(Sentences(cleaned)) > Len(validSentences)

\* C6: when the surviving sentences are no more than the sentence count, the
\* result is all of them joined by single spaces, in order, and neither
\* frequency table nor any score has been built.
C6_ShortCircuit ==
    (Returned /\ ~numSentences.nan /\ Len(validSentences) <= numSentences.value) =>
        /\ result = JSString(JoinSpace(validSentences))
        /\ selected = [i \in 1..Len(validSentences) |-> i - 1]
        /\ initialized = {}
        /\ DOMAIN wordFreq = {} /\ DOMAIN phraseFreq = {}
        /\ sentenceScores = <<>>

\* Exactly as many sentences survive as were asked for.
C6_Witness ==
    /\ Returned /\ ~numSentences.nan
    /\ Len(validSentences) = numSentences.value
    /\ Len(validSentences) >= 2

\* C7: cleaning a cleaned text changes nothing.
C7_NormalizeIdempotent ==
    pc \in {"cleaned", "filtered", "counted", "scored", "done"} =>
        Clean(cleaned) = cleaned

\* C8 as stated: for the scenario text and 2 sentences, the citation and the
\* URL are removed, "The cat sat on the mat." is rejected so that exactly two
\* sentences survive, and the result is the two long sentences in order.
C8_ScenarioAsStated ==
    (Returned /\ text = JSString(ScenarioText) /\ numSentences = Num(2)) =>
        /\ ~Includes(cleaned, "1") /\ ~Includes(cleaned, "http")
        /\ validSentences = <<ScenarioSecond, ScenarioThird>>
        /\ result = JSString(ScenarioSecond \o " " \o ScenarioThird)

\* C8 amended: the citation and the URL are removed, all three sentences
\* survive the filter, the scored path runs, and the two long sentences are
\* selected and returned in their original order.
C8_Scenario ==
    (Returned /\ text = JSString(ScenarioText) /\ numSentences = Num(2)) =>
        /\ cleaned = "The cat sat on the mat. " \o ScenarioSecond \o " " \o ScenarioThird
        /\ validSentences = <<"The cat sat on the mat.", ScenarioSecond, ScenarioThird>>
        /\ Scored
        /\ selected = <<1, 2>>
        /\ result = JSString(ScenarioSecond \o " " \o ScenarioThird)

C8_Witness ==
    Returned /\ text = JSString(ScenarioText) /\ numSentences = Num(2)

\* C9: on the scored path with a sentence count of at least 1, every selected
\* sentence scores at least as high as every sentence left out, and on equal
\* scores the selected one has the smaller original index.
C9_TopByScore ==
    (Returned /\ Scored /\ PositiveCount) =>
        \A i \in Range(selected) :
            \A u \in (0..(Len(validSentences) - 1)) \ Range(selected) :
                /\ ~ScoreOf(i).nan /\ ~ScoreOf(u).nan
                /\ ScoreOf(i).value >= ScoreOf(u).value
                /\ ScoreOf(i).value = ScoreOf(u).value => i < u

\* C10: a sentence in the first fifth (index < 0.2 * total) or the last fifth
\* (index > 0.8 * total) has a position score no lower than the 0.2 of the
\* middle.
C10_EdgesAtLeastMiddle ==
    (pc \in {"scored", "done"} /\ Scored) =>
        \A index \in 0..(Len(validSentences) - 1) :
            (5 * index < Len(validSentences) \/ 5 * index > 4 * Len(validSentences))
                => 5 * positionScore(index, Len(validSentences)) >= Scale

\* C11: waitForContentStabilization invokes its callback exactly once and no
\* later than maxWaitTime plus one check interval after it was called,
\* whatever the page does meanwhile; once the callback was invoked the
\* interval is cleared and the observer disconnected.  Stated for the call
\* the listener makes (line 288, default maxWaitTime): a call still waiting
\* for its first callback is never older than maxWaitTime + checkInterval.
C11_CallbackByMaxWait ==
    /\ callbacks <= 1
    /\ callbacks = 1 => intervalId = "cleared" /\ observer = "disconnected"
    /\ (observer # "none" /\ callbacks = 0 /\ maxWaitTime = DefaultMaxWaitTime) =>
           now - calledAt <= maxWaitTime + checkInterval

\* What does hold of a call: at most one callback, and it comes with the
\* interval cleared and the observer disconnected; without it both are live.
WaitCleanup ==
    /\ callbacks <= 1
    /\ callbacks = 1 <=> intervalId = "cleared"
    /\ callbacks = 1 <=> observer = "disconnected"
    /\ intervalId = "set" <=> observer = "observing"

\* The else-branch of line 270 is taken only for a maxWaitTime below the
\* stability window of line 266.
MaxWaitBranchDead ==
    [][(IntervalCheck /\ ~Stable(now, lastChangeTime) /\ callbacks' # callbacks)
           => maxWaitTime < StableTime]_vars

Started(h) == handlers[h].at # "none"
Finished(h) == handlers[h].at \in {"shown", "failed"}

\* C12: the summary container and the error panel are never both visible,
\* and once every started handler has finished the loader is hidden, for
\* any sequence of clicks, overlapping ones included.
C12_PanelsExclusive ==
    /\ ~(summaryContainer = FALSE /\ error = FALSE)
    /\ ((\E h \in HandlerIds : Started(h))
           /\ (\A h \in HandlerIds : Started(h) => Finished(h)))
       => loader = TRUE

\* What does hold: the loader is hidden once every started handler is done.
LoaderHiddenWhenDone ==
    ((\E h \in HandlerIds : Started(h))
        /\ (\A h \in HandlerIds : Started(h) => Finished(h)))
    => loader = TRUE

\* With one click only, the two panels are never visible together.
ExclusiveForOneClick ==
    (\A h \in HandlerIds : Started(h) => h = 1)
    => ~(summaryContainer = FALSE /\ error = FALSE)
====
